---- MODULE Spec2Model ----
(***************************************************************************)
(* State-machine model of the Crestron Home MCP server                     *)
(* (src/crestron_mcp.py) talking to a controller (src/mock_crestron_       *)
(* server.py) or to any other HTTP server the caller names as host.        *)
(*                                                                         *)
(* Python values are encoded as follows:                                   *)
(*   None (host)            the string "None" (what the f-string prints)   *)
(*   None (auth_key)        NoneKey,  ""  is EmptyKey                      *)
(*   None (session_start)   NoneTime                                       *)
(*   a dict                 a record; its DOMAIN is the set of keys        *)
(*   an exception           a record [exc, status_code]                    *)
(* Time is in seconds.  The event loop clock and the controller clock are  *)
(* the single variable now.                                                *)
(***************************************************************************)
EXTENDS Integers, Sequences, FiniteSets, TLC

\* ------------------------------------------------------------------------
\* Program constants
\* ------------------------------------------------------------------------
API_TIMEOUT == 30
REMOTE_WINDOW == 600
\* A local limit equal to the controller's window, without safety margin.
SESSION_TIMEOUT_no_margin == REMOTE_WINDOW
SESSION_TIMEOUT == 540
AUTH_TOKEN == "test-token-123"

\* ------------------------------------------------------------------------
\* Bounds of the model
\* ------------------------------------------------------------------------
MaxTasks == 3
MaxInFlight == 2
MaxBatchTasks == 2
MaxTime == 660
MaxBatchTime == 60

Tasks == 1..MaxTasks

\* ------------------------------------------------------------------------
\* Encodings
\* ------------------------------------------------------------------------
NoneHost == "None"
NoneKey == <<"None">>
EmptyKey == <<>>
NoneTime == -1

\* Python truthiness of an Optional[str]: None and "" are falsy.
TruthyKey(k) == k /= NoneKey /\ k /= EmptyKey

\* Python truthiness of an Optional[float]: None and 0.0 are falsy.
TruthyTime(s) == s /= NoneTime /\ s /= 0

\* The inputs of crestron_authenticate; only the controller looks at the token.
AuthenticateInputs ==
    {[host |-> "crestron", auth_token |-> AUTH_TOKEN],
     [host |-> "crestron", auth_token |-> "bad-token"],
     [host |-> "other", auth_token |-> AUTH_TOKEN]}

\* The inputs with the token the controller accepts: what varies among them
\* is the host, a controller or some other server.
AcceptedTokenInputs == {p \in AuthenticateInputs : p.auth_token = AUTH_TOKEN}

\* ------------------------------------------------------------------------
\* CrestronSession
\* ------------------------------------------------------------------------
CrestronSession_init == [host |-> NoneHost, auth_key |-> NoneKey, session_start |-> NoneTime]

is_valid(s, t) ==
    IF ~TruthyKey(s.auth_key) \/ ~TruthyTime(s.session_start)
    THEN FALSE
    ELSE t - s.session_start < SESSION_TIMEOUT

\* A clear that forgets the credential and keeps the issuance time.
clear_credential_only(s) == [s EXCEPT !.auth_key = NoneKey]

\* CrestronSession.clear
clear(s) == [s EXCEPT !.auth_key = NoneKey, !.session_start = NoneTime]

\* ------------------------------------------------------------------------
\* JSON values, HTTP messages, exceptions
\* ------------------------------------------------------------------------
EmptyDict == [k \in {} |-> 0]

\* dict.get(key, default)
dict_get(d, key, default) == IF key \in DOMAIN d THEN d[key] ELSE default

\* A decoded body is a JSON object ("object", its members in obj), any
\* other JSON value ("array"), or not JSON at all ("text").
Response(status, kind, obj) == [status_code |-> status, kind |-> kind, obj |-> obj]
NoResponse == Response(0, "none", EmptyDict)

NoRequest == [host |-> NoneHost, path |-> "", method |-> "", headers |-> EmptyDict, body |-> <<>>]

Exception(type, msg, status) == [type |-> type, msg |-> msg, status_code |-> status]
NoException == Exception("None", "", 0)

\* Lines 131-132 and 179-180
ClientNotInitialized == Exception("RuntimeError", "HTTP client not initialized", 0)

\* <value>.get on a JSON value that is not an object
AttributeError == Exception("AttributeError", "object has no attribute 'get'", 0)

\* isinstance(e, ValueError): json.JSONDecodeError derives from ValueError.
IsValueError(e) == e.type \in {"ValueError", "JSONDecodeError"}
IsHTTPStatusError(e) == e.type = "HTTPStatusError"

\* What the transport hands back from an awaited client.get / client.post:
\* a response, or an exception raised by httpx (timeout, connection error).
Net(error, resp) == [error |-> error, resp |-> resp]
NetException(n) ==
    IF n.error = "timeout" THEN Exception("TimeoutException", "", 0)
    ELSE Exception("ConnectError", "All connection attempts failed", 0)

is_success(resp) == resp.status_code \in 200..299

status_text(code) ==
    CASE code = 401 -> "Client error '401 Unauthorized'"
      [] code = 404 -> "Client error '404 Not Found'"
      [] code = 500 -> "Server error '500 Internal Server Error'"
      [] OTHER -> "error response"

\* A status check that lets client errors (4xx) through.
raise_for_status_server_errors_only(resp) ==
    IF resp.status_code < 500 THEN NoException
    ELSE Exception("HTTPStatusError", status_text(resp.status_code), resp.status_code)

\* response.raise_for_status()
raise_for_status(resp) ==
    IF is_success(resp) THEN NoException
    ELSE Exception("HTTPStatusError", status_text(resp.status_code), resp.status_code)

\* response.json()
response_json(resp) ==
    IF resp.kind = "text" THEN Exception("JSONDecodeError", "Expecting value", 0)
    ELSE NoException

\* ------------------------------------------------------------------------
\* authenticate
\* ------------------------------------------------------------------------
authenticate_request(host, auth_token) ==
    [host |-> host, path |-> "/login", method |-> "GET",
     headers |-> [AuthToken |-> auth_token], body |-> <<>>]

\* A login that forgets the session when it fails.
authenticate_complete_clearing(s, host, n, t) ==
    IF n.error = "none" /\ is_success(n.resp) /\ n.resp.kind = "object"
    THEN [session |-> [host |-> host,
                       auth_key |-> dict_get(n.resp.obj, "AuthKey", NoneKey),
                       session_start |-> t],
          raised |-> NoException,
          data |-> n.resp.obj]
    ELSE [session |-> CrestronSession_init,
          raised |-> IF n.error /= "none" THEN NetException(n)
                     ELSE IF ~is_success(n.resp) THEN raise_for_status(n.resp)
                     ELSE IF n.resp.kind = "text" THEN response_json(n.resp)
                     ELSE AttributeError,
          data |-> EmptyDict]

\* A login that restarts the clock of the stored session whatever the answer.
authenticate_complete_restamping(s, host, n, t) ==
    IF n.error = "none" /\ is_success(n.resp) /\ n.resp.kind = "object"
    THEN [session |-> [host |-> host,
                       auth_key |-> dict_get(n.resp.obj, "AuthKey", NoneKey),
                       session_start |-> t],
          raised |-> NoException,
          data |-> n.resp.obj]
    ELSE [session |-> [s EXCEPT !.session_start = t],
          raised |-> IF n.error /= "none" THEN NetException(n)
                     ELSE IF ~is_success(n.resp) THEN raise_for_status(n.resp)
                     ELSE IF n.resp.kind = "text" THEN response_json(n.resp)
                     ELSE AttributeError,
          data |-> EmptyDict]

\* Lines 137-147, from the point the awaited GET completes.  The three
\* assignments run in order; data.get raises AttributeError on a JSON value
\* that is not an object, after host has been assigned.
authenticate_complete(s, host, n, t) ==
    IF n.error /= "none"
    THEN [session |-> s, raised |-> NetException(n), data |-> EmptyDict]
    ELSE IF raise_for_status(n.resp) /= NoException
    THEN [session |-> s, raised |-> raise_for_status(n.resp), data |-> EmptyDict]
    ELSE IF response_json(n.resp) /= NoException
    THEN [session |-> s, raised |-> response_json(n.resp), data |-> EmptyDict]
    ELSE IF n.resp.kind /= "object"
    THEN [session |-> [s EXCEPT !.host = host],
          raised |-> AttributeError,
          data |-> EmptyDict]
    ELSE [session |-> [host |-> host,
                       auth_key |-> dict_get(n.resp.obj, "AuthKey", NoneKey),
                       session_start |-> t],
          raised |-> NoException,
          data |-> n.resp.obj]

\* ------------------------------------------------------------------------
\* api_request
\* ------------------------------------------------------------------------
NotAuthenticatedMsg == "Not authenticated or session expired. Please authenticate first using crestron_authenticate tool."

\* A dispatcher that does not look at the session before sending.
api_request_check_unguarded(s, clientReady, method, require_auth, t) ==
    IF ~clientReady
    THEN ClientNotInitialized
    ELSE IF method \notin {"GET", "POST"}
    THEN Exception("ValueError", "Unsupported HTTP method", 0)
    ELSE NoException

\* Lines 172-194: what is raised before any network access, if anything.
api_request_check(s, clientReady, method, require_auth, t) ==
    IF require_auth /\ ~is_valid(s, t)
    THEN Exception("ValueError", NotAuthenticatedMsg, 0)
    ELSE IF ~clientReady
    THEN ClientNotInitialized
    ELSE IF method \notin {"GET", "POST"}
    THEN Exception("ValueError", "Unsupported HTTP method", 0)
    ELSE NoException

\* Lines 182-192: the request handed to the client.
api_request_headers(s, require_auth) ==
    IF require_auth /\ TruthyKey(s.auth_key)
    THEN [AuthKey |-> s.auth_key]
    ELSE EmptyDict

api_request_build(s, endpoint, method, body, require_auth) ==
    [host |-> s.host, path |-> endpoint, method |-> method,
     headers |-> api_request_headers(s, require_auth),
     body |-> IF method = "POST" THEN body ELSE <<>>]

\* Lines 189-197, from the point the awaited call completes.
api_request_complete(n) ==
    IF n.error /= "none"
    THEN [raised |-> NetException(n), data |-> NoResponse]
    ELSE IF raise_for_status(n.resp) /= NoException
    THEN [raised |-> raise_for_status(n.resp), data |-> NoResponse]
    ELSE IF response_json(n.resp) /= NoException
    THEN [raised |-> response_json(n.resp), data |-> NoResponse]
    ELSE [raised |-> NoException, data |-> n.resp]

\* ------------------------------------------------------------------------
\* The controller (mock_crestron_server.py)
\* ------------------------------------------------------------------------
ROOMS == <<[id |-> 1001, name |-> "Tutta la Casa"],
           [id |-> 1, name |-> "Soggiorno"],
           [id |-> 2, name |-> "Camera da Letto"],
           [id |-> 3, name |-> "Cucina"]>>

\* The devices the modelled tools address, as the module is loaded.
DEVICES_loaded ==
    <<[id |-> 10, name |-> "Lampadario Soggiorno", type |-> "light", roomId |-> 1],
      [id |-> 20, name |-> "Tapparella Grande", type |-> "shade", roomId |-> 1,
       position |-> 0],
      [id |-> 21, name |-> "Tapparella Finestra", type |-> "shade", roomId |-> 1,
       position |-> 32768],
      [id |-> 80, name |-> "Termostato Principale", type |-> "thermostat", roomId |-> 1001,
       mode |-> "Cool", currentFanMode |-> "Auto"]>>

\* The session key embeds int(time.time()) and the handler thread's id; the
\* server is single-threaded, so the second decides the key.
generate_session_key(t) == <<"session", t>>

\* The type of the device get_device_by_id finds, "None" when there is none.
device_type(devices, device_id) ==
    LET found == {i \in 1..Len(devices) : devices[i].id = device_id}
    IN IF found = {} THEN "None"
       ELSE devices[CHOOSE i \in found : \A j \in found : i <= j].type

\* validate_session: the verdict and the SESSIONS table it leaves.
validate_session(sessions, auth_key, t) ==
    IF auth_key \notin DOMAIN sessions
    THEN [ok |-> FALSE, sessions |-> sessions]
    ELSE IF t - sessions[auth_key].created_at > REMOTE_WINDOW
    THEN [ok |-> FALSE,
          sessions |-> [k \in DOMAIN sessions \ {auth_key} |-> sessions[k]]]
    ELSE [ok |-> TRUE, sessions |-> sessions]

\* _require_auth
require_auth_check(sessions, headers, t) ==
    IF "AuthKey" \notin DOMAIN headers \/ ~TruthyKey(headers.AuthKey)
    THEN [ok |-> FALSE, sessions |-> sessions]
    ELSE validate_session(sessions, headers.AuthKey, t)

Unauthorized == Response(401, "object", [error |-> "Unauthorized"])

\* do_GET, login endpoint
mock_login(sessions, headers, t) ==
    IF dict_get(headers, "AuthToken", "None") = AUTH_TOKEN
    THEN [resp |-> Response(200, "object",
                            [version |-> "2.0", AuthKey |-> generate_session_key(t)]),
          sessions |-> [k \in DOMAIN sessions \cup {generate_session_key(t)} |->
                           IF k = generate_session_key(t)
                           THEN [created_at |-> t] ELSE sessions[k]]]
    ELSE [resp |-> Response(401, "object", [error |-> "Invalid authorization token"]),
          sessions |-> sessions]

RECURSIVE shade_ids(_, _, _)
\* The ids of the commands whose target is (want = TRUE) or is not a shade,
\* in command order.
shade_ids(devices, shades, want) ==
    IF shades = <<>> THEN <<>>
    ELSE IF (device_type(devices, Head(shades).id) = "shade") = want
    THEN <<Head(shades).id>> \o shade_ids(devices, Tail(shades), want)
    ELSE shade_ids(devices, Tail(shades), want)

RECURSIVE set_field(_, _, _, _, _)
\* The devices after the loop over the commands: each command whose target
\* has the given type assigns its value to the given field, in order.
set_field(devices, type, field, commands, value_key) ==
    IF commands = <<>> THEN devices
    ELSE LET cmd == Head(commands)
             after == [i \in 1..Len(devices) |->
                          IF devices[i].id = cmd.id /\ devices[i].type = type
                          THEN [k \in DOMAIN devices[i] \cup {field} |->
                                   IF k = field THEN cmd[value_key] ELSE devices[i][k]]
                          ELSE devices[i]]
         IN set_field(after, type, field, Tail(commands), value_key)

\* do_POST, /shades/SetState
mock_set_state(devices, body) ==
    LET shades == dict_get(body, "shades", <<>>)
        success_ids == shade_ids(devices, shades, TRUE)
        failed_ids == shade_ids(devices, shades, FALSE)
    IN [devices |-> set_field(devices, "shade", "position", shades, "position"),
        resp |-> IF failed_ids /= <<>>
                 THEN Response(200, "object",
                          [status |-> IF success_ids /= <<>> THEN "partial" ELSE "failure",
                           errorDevices |-> failed_ids,
                           version |-> "1.000.0001"])
                 ELSE Response(200, "object", [status |-> "success", version |-> "1.000.0001"])]

\* do_POST, /thermostats/mode and /thermostats/fanmode
mock_set_mode(devices, body, field) ==
    [devices |-> set_field(devices, "thermostat", field,
                           dict_get(body, "thermostats", <<>>), "mode"),
     resp |-> Response(200, "object", [status |-> "success", version |-> "1.000.0001"])]

\* do_GET / do_POST behind _require_auth
mock_endpoint(devices, req) ==
    CASE req.method = "GET" /\ req.path = "/rooms" ->
             [devices |-> devices,
              resp |-> Response(200, "object", [rooms |-> ROOMS, version |-> "2.0"])]
      [] req.method = "GET" /\ req.path = "/devices" ->
             [devices |-> devices,
              resp |-> Response(200, "object", [devices |-> devices, version |-> "2.0"])]
      [] req.method = "POST" /\ req.path = "/shades/SetState" ->
             mock_set_state(devices, req.body)
      [] req.method = "POST" /\ req.path = "/thermostats/mode" ->
             mock_set_mode(devices, req.body, "mode")
      [] req.method = "POST" /\ req.path = "/thermostats/fanmode" ->
             mock_set_mode(devices, req.body, "currentFanMode")
      [] OTHER -> [devices |-> devices,
                   resp |-> Response(404, "object", [error |-> "Endpoint not found"])]

\* One request served by the controller at time t.
mock_handle(sessions, devices, req, t) ==
    IF req.method = "GET" /\ req.path = "/login"
    THEN [resp |-> mock_login(sessions, req.headers, t).resp,
          sessions |-> mock_login(sessions, req.headers, t).sessions,
          devices |-> devices]
    ELSE LET a == require_auth_check(sessions, req.headers, t)
         IN [resp |-> IF a.ok THEN mock_endpoint(devices, req).resp ELSE Unauthorized,
             sessions |-> a.sessions,
             devices |-> IF a.ok THEN mock_endpoint(devices, req).devices ELSE devices]

\* What a server that is not a controller may answer.
OtherResponses ==
    {Response(200, "object", [version |-> "9", AuthKey |-> <<"other">>]),
     Response(200, "object", [version |-> "9"]),
     Response(200, "array", EmptyDict),
     Response(200, "text", EmptyDict),
     Response(404, "text", EmptyDict),
     Response(500, "text", EmptyDict)}

\* What such a server may answer to a batch call when it reports per-item
\* failures the way /shades/SetState does.
PerItemErrorResponses ==
    {Response(200, "object", [status |-> "partial", errorDevices |-> <<99>>]),
     Response(200, "object", [status |-> "failure", errorDevices |-> <<99>>]),
     Response(200, "object", [errorDevices |-> <<99>>])}

\* ------------------------------------------------------------------------
\* Tools: the value each returns to its caller (the dict it serialises)
\* ------------------------------------------------------------------------
\* An outcome is what the awaited helper gave the tool: an exception raised
\* or the data returned.
Outcome(raised, data) == [raised |-> raised, data |-> data]

\* crestron_authenticate, lines 346-378; data is the login response object.
crestron_authenticate_result(params, raised, data) ==
    IF raised = NoException
    THEN [status |-> "success", host |-> params.host, authenticated |-> TRUE,
          session_valid_for |-> "10 minutes",
          api_version |-> dict_get(data, "version", "unknown")]
    ELSE IF IsHTTPStatusError(raised)
    THEN [status |-> "error", error |-> "Authentication failed", details |-> raised.msg]
    ELSE [status |-> "error", error |-> raised.msg]

\* Except clauses that report what failed and nothing of the exception.
listing_error_without_details(raised, what) == [error |-> what]

\* The except clauses shared by the listing tools: ValueError, then Exception.
listing_error(raised, what) ==
    IF IsValueError(raised)
    THEN [error |-> raised.msg]
    ELSE [error |-> what, details |-> raised.msg]

\* crestron_list_rooms, lines 421-444
crestron_list_rooms_result(o) ==
    IF o.raised /= NoException
    THEN listing_error(o.raised, "Failed to retrieve rooms")
    ELSE IF o.data.kind /= "object"
    THEN listing_error(AttributeError, "Failed to retrieve rooms")
    ELSE [rooms |-> dict_get(o.data.obj, "rooms", <<>>),
          count |-> Len(dict_get(o.data.obj, "rooms", <<>>))]

\* A write-path conversion with the scale 655 per percent.
crestron_position_655(position) == position * 655

\* int(shade.position * 65535 / 100)
crestron_position(position) == (position * 65535) \div 100

\* A body that keeps only the first command of the batch.
shades_data_first_only(shades) ==
    [i \in 1..1 |->
        [id |-> shades[i].id, position |-> crestron_position(shades[i].position)]]

\* int(shade['position'] * 100 / 65535), lines 613 and 258.  The quotient
\* is a double; a quotient that is not an integer is at least 1/65535 away
\* from one, far more than the rounding of the division, so int() of it is
\* the floor of the exact quotient.  The same holds for crestron_position.
shade_percent(raw) == (raw * 100) \div 65535

\* Lines 687-695: the body of the SetState call.
shades_data(shades) ==
    [i \in 1..Len(shades) |->
        [id |-> shades[i].id, position |-> crestron_position(shades[i].position)]]

set_shade_body(params) == [shades |-> shades_data(params.shades)]

\* A set-shade tool that reports success whatever the helper gave or raised.
crestron_set_shade_position_result_swallowing(params, o) ==
    [status |-> "success", shades_updated |-> Len(params.shades),
     message |-> "Successfully updated", details |-> o.data.obj]

\* crestron_set_shade_position, lines 698-727
crestron_set_shade_position_result(params, o) ==
    IF o.raised = NoException /\ o.data.kind = "object"
    THEN LET status == dict_get(o.data.obj, "status", "unknown")
             response == [status |-> status,
                          shades_updated |-> Len(params.shades),
                          details |-> o.data.obj]
         IN IF status = "partial"
            THEN [k \in DOMAIN response \cup {"message"} |->
                     IF k = "message" THEN "Some shades failed to update."
                     ELSE response[k]]
            ELSE IF status = "success"
            THEN [k \in DOMAIN response \cup {"message"} |->
                     IF k = "message" THEN "Successfully updated" ELSE response[k]]
            ELSE response
    ELSE LET e == IF o.raised = NoException THEN AttributeError ELSE o.raised
         IN IF IsValueError(e)
            THEN [error |-> e.msg]
            ELSE IF IsHTTPStatusError(e)
            THEN [error |-> "Failed to set shade positions",
                  status_code |-> e.status_code, details |-> e.msg]
            ELSE [error |-> "Failed to set shade positions", details |-> e.msg]

\* Lines 1145-1150 and 1218-1223: the body of the mode and fanmode calls.
thermostats_data(thermostats) ==
    [i \in 1..Len(thermostats) |->
        [id |-> thermostats[i].id, mode |-> thermostats[i].mode]]

set_thermostat_body(params) == [thermostats |-> thermostats_data(params.thermostats)]

\* crestron_set_thermostat_mode, lines 1153-1168
crestron_set_thermostat_mode_result(params, o) ==
    IF o.raised = NoException /\ o.data.kind = "object"
    THEN [status |-> dict_get(o.data.obj, "status", "success"),
          thermostats_updated |-> Len(params.thermostats),
          message |-> "Successfully updated",
          details |-> o.data.obj]
    ELSE listing_error(IF o.raised = NoException THEN AttributeError ELSE o.raised,
                       "Failed to set thermostat mode")

\* crestron_set_thermostat_fan, lines 1226-1241
crestron_set_thermostat_fan_result(params, o) ==
    IF o.raised = NoException
    THEN [status |-> "success",
          thermostats_updated |-> Len(params.thermostats),
          message |-> "Successfully updated fan mode",
          details |-> o.data.obj]
    ELSE listing_error(o.raised, "Failed to set thermostat fan mode")

\* The endpoint, method and body a tool passes to api_request.
tool_endpoint(tool) ==
    CASE tool = "list_rooms" -> "/rooms"
      [] tool = "set_shade_position" -> "/shades/SetState"
      [] tool = "set_thermostat_mode" -> "/thermostats/mode"
      [] tool = "set_thermostat_fan" -> "/thermostats/fanmode"

tool_method(tool) == IF tool = "list_rooms" THEN "GET" ELSE "POST"

tool_body(tool, params) ==
    CASE tool = "list_rooms" -> <<>>
      [] tool = "set_shade_position" -> set_shade_body(params)
      [] tool \in {"set_thermostat_mode", "set_thermostat_fan"} -> set_thermostat_body(params)

tool_result(tool, params, o) ==
    CASE tool = "list_rooms" -> crestron_list_rooms_result(o)
      [] tool = "set_shade_position" -> crestron_set_shade_position_result(params, o)
      [] tool = "set_thermostat_mode" -> crestron_set_thermostat_mode_result(params, o)
      [] tool = "set_thermostat_fan" -> crestron_set_thermostat_fan_result(params, o)

\* ------------------------------------------------------------------------
\* Inputs
\* ------------------------------------------------------------------------
MaxBatch == 2

RECURSIVE SeqsUpTo(_, _)
\* The sequences over S of length 0..n.
SeqsUpTo(S, n) ==
    IF n = 0 THEN {<<>>}
    ELSE LET shorter == SeqsUpTo(S, n - 1)
         IN shorter \cup {Append(q, x) : q \in {r \in shorter : Len(r) = n - 1}, x \in S}

ShadeIds == {20, 21, 99}
Positions == {50}
ShadeCommands == [id : ShadeIds, position : Positions]
ShadeBatches == SeqsUpTo(ShadeCommands, MaxBatch) \ {<<>>}

ThermostatIds == {80, 99}
ThermostatModeCommands == [id : ThermostatIds, mode : {"HEAT"}]
ThermostatFanCommands == [id : ThermostatIds, mode : {"ON"}]
ThermostatModeBatches == SeqsUpTo(ThermostatModeCommands, MaxBatch) \ {<<>>}
ThermostatFanBatches == SeqsUpTo(ThermostatFanCommands, MaxBatch) \ {<<>>}

\* ------------------------------------------------------------------------
\* State
\* ------------------------------------------------------------------------
VARIABLES
    now,        \* the clock, in seconds
    client,     \* _session.client is set
    session,    \* _session: host, auth_key, session_start
    written,    \* history: the authenticate (its host, its time) that assigned each field of _session
    SESSIONS,   \* the controller's session table
    DEVICES,    \* the controller's devices
    task,       \* the tool invocations and where each stands
    last,       \* what the step just taken returned to a caller, if it returned
    calc        \* a pure function of the program, its input and, once applied, its output

vars == <<now, client, session, written, SESSIONS, DEVICES, task, last, calc>>

\* An authenticate is told from another by its host and the time it completed.
Stamp(host, t) == <<host, t>>
NoStamp == Stamp(NoneHost, NoneTime)
NoWriter == [host |-> NoStamp, auth_key |-> NoStamp, session_start |-> NoStamp]

IdleTask ==
    [pc |-> "idle", tool |-> "none", params |-> EmptyDict, req |-> NoRequest,
     sentAt |-> 0, net |-> Net("none", NoResponse), sends |-> 0,
     startValid |-> FALSE, startKey |-> NoneKey, reads |-> NoWriter]

DoneTask == [IdleTask EXCEPT !.pc = "done"]

\* The record of an invocation that returned result, its helper (authenticate
\* or api_request) having raised `raised`.
Returned(t, inv, raised, result) ==
    [t |-> t, tool |-> inv.tool, params |-> inv.params, req |-> inv.req, net |-> inv.net,
     sends |-> inv.sends, startValid |-> inv.startValid, startKey |-> inv.startKey,
     reads |-> inv.reads, raised |-> raised, result |-> result]

NoReturn == Returned(0, IdleTask, NoException, EmptyDict)

\* No pure function under study.
NoCalc == [stage |-> "none"]

\* The server as the module is loaded.
Loaded ==
    /\ now = 0
    /\ client = FALSE
    /\ session = CrestronSession_init
    /\ written = NoWriter
    /\ SESSIONS = EmptyDict
    /\ DEVICES = DEVICES_loaded
    /\ task = [t \in Tasks |-> IdleTask]
    /\ last = NoReturn

Init ==
    /\ Loaded
    /\ calc = NoCalc

InFlight(t) == task[t].pc \in {"sent", "replied"}

\* Invocations are numbered in the order they start; the server runs tools
\* only inside app_lifespan.  At most MaxInFlight of them are awaiting an
\* answer at a time.
MayStart(t) ==
    /\ client
    /\ Cardinality({u \in Tasks : InFlight(u)}) < MaxInFlight
    /\ task[t].pc = "idle"
    /\ \A u \in Tasks : u < t => task[u].pc /= "idle"

\* ------------------------------------------------------------------------
\* Actions
\* ------------------------------------------------------------------------
\* app_lifespan, up to its yield
AppLifespan ==
    /\ ~client
    /\ client' = TRUE
    /\ last' = NoReturn
    /\ UNCHANGED <<now, session, written, SESSIONS, DEVICES, task, calc>>

\* Time passes while some request is in flight.  A request in flight is
\* answered or timed out by API_TIMEOUT.
Tick(limit) ==
    /\ \E t \in Tasks : InFlight(t)
    /\ now + API_TIMEOUT <= limit
    /\ \A t \in Tasks : InFlight(t) => now + API_TIMEOUT - task[t].sentAt <= API_TIMEOUT
    /\ now' = now + API_TIMEOUT
    /\ last' = NoReturn
    /\ UNCHANGED <<client, session, written, SESSIONS, DEVICES, task, calc>>

\* Time passes between invocations while a session is live, a session
\* lifetime or nearly so.
IdleSteps == {SESSION_TIMEOUT - API_TIMEOUT, SESSION_TIMEOUT}

Idle(step, limit) ==
    /\ is_valid(session, now)
    /\ \A t \in Tasks : ~InFlight(t)
    /\ \E t \in Tasks : task[t].pc = "idle"
    /\ now + step <= limit
    /\ now' = now + step
    /\ last' = NoReturn
    /\ UNCHANGED <<client, session, written, SESSIONS, DEVICES, task, calc>>

\* crestron_authenticate up to the awaited GET of authenticate.
CallAuthenticate(t, host, auth_token) ==
    LET inv == [IdleTask EXCEPT !.tool = "authenticate",
                                !.params = [host |-> host, auth_token |-> auth_token],
                                !.startValid = is_valid(session, now),
                                !.startKey = session.auth_key]
    IN /\ MayStart(t)
       /\ IF ~client
          THEN /\ task' = [task EXCEPT ![t] = DoneTask]
               /\ last' = Returned(t, inv, ClientNotInitialized,
                              crestron_authenticate_result(inv.params, ClientNotInitialized, EmptyDict))
          ELSE /\ task' = [task EXCEPT ![t] =
                      [inv EXCEPT !.pc = "sent",
                                  !.req = authenticate_request(host, auth_token),
                                  !.sentAt = now, !.sends = 1]]
               /\ last' = NoReturn
       /\ UNCHANGED <<now, client, session, written, SESSIONS, DEVICES, calc>>

\* A tool built on one api_request, up to the awaited call in api_request.
CallTool(t, tool, params) ==
    LET raised == api_request_check(session, client, tool_method(tool), TRUE, now)
        inv == [IdleTask EXCEPT !.tool = tool, !.params = params,
                                !.startValid = is_valid(session, now),
                                !.startKey = session.auth_key,
                                !.reads = written]
    IN /\ MayStart(t)
       /\ IF raised /= NoException
          THEN /\ task' = [task EXCEPT ![t] = DoneTask]
               /\ last' = Returned(t, inv, raised,
                              tool_result(tool, params, Outcome(raised, NoResponse)))
          ELSE /\ task' = [task EXCEPT ![t] =
                      [inv EXCEPT !.pc = "sent",
                                  !.req = api_request_build(session, tool_endpoint(tool),
                                              tool_method(tool), tool_body(tool, params), TRUE),
                                  !.sentAt = now, !.sends = 1]]
               /\ last' = NoReturn
       /\ UNCHANGED <<now, client, session, written, SESSIONS, DEVICES, calc>>

CallListRooms(t) == CallTool(t, "list_rooms", EmptyDict)

CallSetShadePosition(t, shades) == CallTool(t, "set_shade_position", [shades |-> shades])

CallSetThermostatMode(t, thermostats) ==
    CallTool(t, "set_thermostat_mode", [thermostats |-> thermostats])

CallSetThermostatFan(t, thermostats) ==
    CallTool(t, "set_thermostat_fan", [thermostats |-> thermostats])

\* A completion that waits its turn: the answer to t is taken up only when
\* no invocation started before t is still awaiting its own.
Complete_in_turn(t, n) ==
    LET inv == [task[t] EXCEPT !.net = n]
    IN /\ \A u \in Tasks : u < t => ~InFlight(u)
       /\ IF task[t].tool = "authenticate"
          THEN LET a == authenticate_complete(session, task[t].params.host, n, now)
               IN /\ session' = a.session
                  /\ written' = [f \in DOMAIN written |->
                                    IF a.raised = NoException
                                       \/ (a.raised = AttributeError /\ f = "host")
                                    THEN Stamp(task[t].params.host, now) ELSE written[f]]
                  /\ last' = Returned(t, inv, a.raised,
                                 crestron_authenticate_result(inv.params, a.raised, a.data))
          ELSE /\ last' = Returned(t, inv, api_request_complete(n).raised,
                              tool_result(inv.tool, inv.params, api_request_complete(n)))
               /\ UNCHANGED <<session, written>>
       /\ task' = [task EXCEPT ![t] = DoneTask]
       /\ UNCHANGED <<now, client, calc>>

\* A completion that forgets the session when the remote answers 401.
Complete_forgetting_on_401(t, n) ==
    LET inv == [task[t] EXCEPT !.net = n]
    IN /\ IF task[t].tool = "authenticate"
          THEN LET a == authenticate_complete(session, task[t].params.host, n, now)
               IN /\ session' = a.session
                  /\ written' = [f \in DOMAIN written |->
                                    IF a.raised = NoException
                                       \/ (a.raised = AttributeError /\ f = "host")
                                    THEN Stamp(task[t].params.host, now) ELSE written[f]]
                  /\ last' = Returned(t, inv, a.raised,
                                 crestron_authenticate_result(inv.params, a.raised, a.data))
          ELSE /\ last' = Returned(t, inv, api_request_complete(n).raised,
                              tool_result(inv.tool, inv.params, api_request_complete(n)))
               /\ session' = IF n.resp.status_code = 401 THEN clear(session) ELSE session
               /\ UNCHANGED written
       /\ task' = [task EXCEPT ![t] = DoneTask]
       /\ UNCHANGED <<now, client, calc>>

\* The awaited call of t completes with n: the rest of the helper and of the tool.
Complete(t, n) ==
    LET inv == [task[t] EXCEPT !.net = n]
    IN /\ IF task[t].tool = "authenticate"
          THEN LET a == authenticate_complete(session, task[t].params.host, n, now)
               IN /\ session' = a.session
                  /\ written' = [f \in DOMAIN written |->
                                    IF a.raised = NoException
                                       \/ (a.raised = AttributeError /\ f = "host")
                                    THEN Stamp(task[t].params.host, now) ELSE written[f]]
                  /\ last' = Returned(t, inv, a.raised,
                                 crestron_authenticate_result(inv.params, a.raised, a.data))
          ELSE /\ last' = Returned(t, inv, api_request_complete(n).raised,
                              tool_result(inv.tool, inv.params, api_request_complete(n)))
               /\ UNCHANGED <<session, written>>
       /\ task' = [task EXCEPT ![t] = DoneTask]
       /\ UNCHANGED <<now, client, calc>>

\* The controller serves the login request of t; the answer is on its way.
ControllerLogin(t) ==
    /\ task[t].pc = "sent"
    /\ task[t].tool = "authenticate"
    /\ task[t].req.host = "crestron"
    /\ LET h == mock_handle(SESSIONS, DEVICES, task[t].req, now)
       IN /\ SESSIONS' = h.sessions
          /\ DEVICES' = h.devices
          /\ task' = [task EXCEPT ![t] = [@ EXCEPT !.pc = "replied", !.net = Net("none", h.resp)]]
    /\ last' = NoReturn
    /\ UNCHANGED <<now, client, session, written, calc>>

\* The answer to the login request of t arrives.
Receive(t) ==
    /\ task[t].pc = "replied"
    /\ Complete(t, task[t].net)
    /\ UNCHANGED <<SESSIONS, DEVICES>>

\* The controller serves the api_request of t, and the answer arrives.
ControllerReply(t) ==
    /\ task[t].pc = "sent"
    /\ task[t].tool /= "authenticate"
    /\ task[t].req.host = "crestron"
    /\ LET h == mock_handle(SESSIONS, DEVICES, task[t].req, now)
       IN /\ SESSIONS' = h.sessions
          /\ DEVICES' = h.devices
          /\ Complete(t, Net("none", h.resp))

\* A server that is not a controller answers the request of t, and the
\* answer arrives.
OtherReply(t, resp) ==
    /\ task[t].pc = "sent"
    /\ task[t].req.host = "other"
    /\ Complete(t, Net("none", resp))
    /\ UNCHANGED <<SESSIONS, DEVICES>>

Timeout(t) ==
    /\ InFlight(t)
    /\ now - task[t].sentAt >= API_TIMEOUT
    /\ Complete(t, Net("timeout", NoResponse))
    /\ UNCHANGED <<SESSIONS, DEVICES>>

ConnectError(t) ==
    /\ task[t].pc = "sent"
    /\ Complete(t, Net("connect", NoResponse))
    /\ UNCHANGED <<SESSIONS, DEVICES>>

\* CrestronSession.clear, called at any point between two awaits; calc
\* keeps the session the call found.
Clear ==
    /\ session' = clear(session)
    /\ written' = [written EXCEPT !.auth_key = NoStamp, !.session_start = NoStamp]
    /\ calc' = [stage |-> "cleared", before |-> session]
    /\ last' = NoReturn
    /\ UNCHANGED <<now, client, SESSIONS, DEVICES, task>>

Next ==
    \/ AppLifespan
    \/ Tick(MaxTime)
    \/ \E step \in IdleSteps : Idle(step, MaxTime)
    \/ \E t \in Tasks, p \in AcceptedTokenInputs : CallAuthenticate(t, p.host, p.auth_token)
    \/ \E t \in Tasks : CallListRooms(t)
    \/ \E t \in Tasks : ControllerLogin(t)
    \/ \E t \in Tasks : Receive(t)
    \/ \E t \in Tasks : ControllerReply(t)
    \/ \E t \in Tasks, resp \in OtherResponses : OtherReply(t, resp)
    \/ \E t \in Tasks : Timeout(t)
    \/ \E t \in Tasks : ConnectError(t)

Spec == Init /\ [][Next]_vars

\* The remote answers the api_request of t, or its timeout fires.
Settle(t) ==
    \/ ControllerReply(t)
    \/ \E resp \in OtherResponses : OtherReply(t, resp)
    \/ Timeout(t)

\* The server and one controller over the span of one timeout after a
\* login, with no idle time between invocations.
NextLive ==
    \/ AppLifespan
    \/ Tick(MaxBatchTime)
    \/ \E t \in Tasks : CallAuthenticate(t, "crestron", AUTH_TOKEN)
    \/ \E t \in Tasks : CallListRooms(t)
    \/ \E t \in Tasks : ControllerLogin(t)
    \/ \E t \in Tasks : Receive(t)
    \/ \E t \in Tasks : ControllerReply(t)
    \/ \E t \in Tasks : Timeout(t)

\* The server under the assumption that every request sent is answered or
\* timed out: httpx.Timeout(API_TIMEOUT) bounds each awaited call, and the
\* event loop resumes a coroutine whose awaited call is done.
SpecLive == Init /\ [][NextLive]_vars /\ \A t \in Tasks : WF_vars(Settle(t))

\* The same server when something in the process also calls
\* CrestronSession.clear.
NextClear ==
    \/ NextLive
    \/ Clear

SpecClear == Init /\ [][NextClear]_vars

\* The batch tools, one invocation at a time, with the clock running only
\* while a request is in flight.
NoneInFlight == \A u \in Tasks : ~InFlight(u)

NextBatch ==
    \/ AppLifespan
    \/ Tick(MaxBatchTime)
    \/ \E t \in 1..MaxBatchTasks, p \in AuthenticateInputs :
          NoneInFlight /\ CallAuthenticate(t, p.host, p.auth_token)
    \/ \E t \in 1..MaxBatchTasks : NoneInFlight /\ CallListRooms(t)
    \/ \E t \in 1..MaxBatchTasks, shades \in ShadeBatches :
          NoneInFlight /\ CallSetShadePosition(t, shades)
    \/ \E t \in 1..MaxBatchTasks, thermostats \in ThermostatModeBatches :
          NoneInFlight /\ CallSetThermostatMode(t, thermostats)
    \/ \E t \in 1..MaxBatchTasks, thermostats \in ThermostatFanBatches :
          NoneInFlight /\ CallSetThermostatFan(t, thermostats)
    \/ \E t \in Tasks : ControllerLogin(t)
    \/ \E t \in Tasks : Receive(t)
    \/ \E t \in Tasks : ControllerReply(t)
    \/ \E t \in Tasks, resp \in OtherResponses \cup PerItemErrorResponses \cup {Unauthorized} :
          OtherReply(t, resp)
    \/ \E t \in Tasks : Timeout(t)
    \/ \E t \in Tasks : ConnectError(t)

SpecBatch == Init /\ [][NextBatch]_vars


\* ------------------------------------------------------------------------
\* The position conversions as pure functions
\* ------------------------------------------------------------------------
MAX_PERCENT == 100
FULL_SCALE == 65535

\* A percentage to write, or a raw position to read.
ConvertInputs ==
    {[stage |-> "percent", pct |-> p] : p \in 0..MAX_PERCENT}
    \cup
    {[stage |-> "raw", raw |-> r] : r \in 0..FULL_SCALE}

InitConvert ==
    /\ Loaded
    /\ calc \in ConvertInputs

\* crestron_set_shade_position converts the percentage it was given.
WritePath ==
    /\ calc.stage = "percent"
    /\ calc' = [stage |-> "written", pct |-> calc.pct, raw |-> crestron_position(calc.pct)]
    /\ UNCHANGED <<now, client, session, written, SESSIONS, DEVICES, task, last>>

\* crestron_get_shades converts the raw position it reads.
ReadPath ==
    /\ calc.stage \in {"raw", "written"}
    /\ calc' = [k \in DOMAIN calc \cup {"shown"} |->
                   CASE k = "stage" -> "shown"
                     [] k = "shown" -> shade_percent(calc.raw)
                     [] OTHER -> calc[k]]
    /\ UNCHANGED <<now, client, session, written, SESSIONS, DEVICES, task, last>>

NextConvert ==
    \/ WritePath
    \/ ReadPath

SpecConvert == InitConvert /\ [][NextConvert]_vars

\* ------------------------------------------------------------------------
\* Text: a str is the sequence of its characters
\* ------------------------------------------------------------------------
\* The characters of the strings the resolver is given.
Chars(str) ==
    CASE str = "Lampadario Soggiorno" ->
             <<"L", "a", "m", "p", "a", "d", "a", "r", "i", "o", " ", "S", "o", "g", "g", "i", "o", "r", "n", "o">>
      [] str = "Tapparella Grande" ->
             <<"T", "a", "p", "p", "a", "r", "e", "l", "l", "a", " ", "G", "r", "a", "n", "d", "e">>
      [] str = "Tapparella Finestra" ->
             <<"T", "a", "p", "p", "a", "r", "e", "l", "l", "a", " ", "F", "i", "n", "e", "s", "t", "r", "a">>
      [] str = "Termostato Principale" ->
             <<"T", "e", "r", "m", "o", "s", "t", "a", "t", "o", " ", "P", "r", "i", "n", "c", "i", "p", "a", "l", "e">>
      [] str = "light" ->
             <<"l", "i", "g", "h", "t">>
      [] str = "shade" ->
             <<"s", "h", "a", "d", "e">>
      [] str = "thermostat" ->
             <<"t", "h", "e", "r", "m", "o", "s", "t", "a", "t">>
      [] str = "Tutta la Casa" ->
             <<"T", "u", "t", "t", "a", " ", "l", "a", " ", "C", "a", "s", "a">>
      [] str = "Soggiorno" ->
             <<"S", "o", "g", "g", "i", "o", "r", "n", "o">>
      [] str = "Camera da Letto" ->
             <<"C", "a", "m", "e", "r", "a", " ", "d", "a", " ", "L", "e", "t", "t", "o">>
      [] str = "Cucina" ->
             <<"C", "u", "c", "i", "n", "a">>
      [] str = "soggiorno lampadario" ->
             <<"s", "o", "g", "g", "i", "o", "r", "n", "o", " ", "l", "a", "m", "p", "a", "d", "a", "r", "i", "o">>
      [] str = "Lampadario Soggiorno acceso" ->
             <<"L", "a", "m", "p", "a", "d", "a", "r", "i", "o", " ", "S", "o", "g", "g", "i", "o", "r", "n", "o", " ", "a", "c", "c", "e", "s", "o">>
      [] str = "soggiorno" ->
             <<"s", "o", "g", "g", "i", "o", "r", "n", "o">>
      [] str = "light Lampadario Soggiorno" ->
             <<"l", "i", "g", "h", "t", " ", "L", "a", "m", "p", "a", "d", "a", "r", "i", "o", " ", "S", "o", "g", "g", "i", "o", "r", "n", "o">>
      [] str = "shade soggiorno" ->
             <<"s", "h", "a", "d", "e", " ", "s", "o", "g", "g", "i", "o", "r", "n", "o">>
      [] str = "tapparella grande" ->
             <<"t", "a", "p", "p", "a", "r", "e", "l", "l", "a", " ", "g", "r", "a", "n", "d", "e">>
      [] str = "garage" ->
             <<"g", "a", "r", "a", "g", "e">>
      [] str = "" ->
             <<>>

\* str.lower(), on the characters above
LowerChar(c) ==
    CASE c = "C" -> "c"
      [] c = "F" -> "f"
      [] c = "G" -> "g"
      [] c = "L" -> "l"
      [] c = "P" -> "p"
      [] c = "S" -> "s"
      [] c = "T" -> "t"
      [] OTHER -> c

lower(str) == [i \in 1..Len(str) |-> LowerChar(str[i])]

\* needle in hay: needle is a run of consecutive characters of hay (the empty
\* str is in every str)
str_in(needle, hay) ==
    \E i \in 0..Len(hay) :
        /\ i + Len(needle) <= Len(hay)
        /\ SubSeq(hay, i + 1, i + Len(needle)) = needle

\* set(str.split()): the maximal runs of characters other than spaces
split_set(str) ==
    LET n == Len(str)
        words == {p \in (1..n) \X (1..n) :
                     /\ p[1] <= p[2]
                     /\ \A k \in p[1]..p[2] : str[k] /= " "
                     /\ p[1] = 1 \/ str[p[1] - 1] = " "
                     /\ p[2] = n \/ str[p[2] + 1] = " "}
    IN {SubSeq(str, p[1], p[2]) : p \in words}

\* ------------------------------------------------------------------------
\* The scores: doubles near a whole number of tenths
\* ------------------------------------------------------------------------
\* [tenths |-> n, ulps |-> d] is the double nearest to n/10, moved d units
\* in the last place (0.30000000000000004 is tenths 3, ulps 1).
Double(tenths, ulps) == [tenths |-> tenths, ulps |-> ulps]

\* 0.1 * k in IEEE 754 double arithmetic, k in 0..8
double_tenth_times(k) == Double(k, IF k \in {3, 6, 7} THEN 1 ELSE 0)

\* x + y in IEEE 754 double arithmetic, for x one of the doubles 0.0, 0.2,
\* 0.3, 0.5, 0.7, 0.8, 1.0 and y one of 0.5, 0.3, 0.2 or 0.1 * k: where the
\* sum lands relative to the double nearest to the exact decimal sum.
double_add(x, y) ==
    LET key == <<x.tenths, y.tenths, y.ulps>>
    IN Double(x.tenths + y.tenths,
              CASE key \in {<<0, 3, 1>>, <<0, 6, 1>>, <<0, 7, 1>>, <<2, 1, 0>>, <<2, 4, 0>>,
                            <<2, 7, 1>>, <<3, 3, 1>>, <<3, 6, 1>>, <<5, 7, 1>>, <<8, 4, 0>>,
                            <<8, 6, 1>>, <<10, 7, 1>>} -> 1
                [] key \in {<<7, 1, 0>>, <<7, 2, 0>>} -> -1
                [] OTHER -> 0)

\* x >= y and x > y on doubles
double_ge(x, y) == x.tenths > y.tenths \/ (x.tenths = y.tenths /\ x.ulps >= y.ulps)

double_gt(x, y) == x.tenths > y.tenths \/ (x.tenths = y.tenths /\ x.ulps > y.ulps)

\* min(score, 1.0)
double_min(x, y) == IF double_gt(x, y) THEN y ELSE x

\* round(score, 2)
double_round2(x) == Double(x.tenths, 0)

\* ------------------------------------------------------------------------
\* crestron_resolve_device
\* ------------------------------------------------------------------------
\* JSON null (None)
NoneJson == "null"

KeyError(key) == Exception("KeyError", key, 0)

\* room_map[room_id] of line 1416; a later room with the same id replaces
\* an earlier one.
room_map(rooms, room_id) ==
    LET i == CHOOSE i \in 1..Len(rooms) :
                 /\ rooms[i].id = room_id
                 /\ \A j \in (i + 1)..Len(rooms) : rooms[j].id /= room_id
    IN lower(Chars(rooms[i].name))

in_room_map(rooms, device) ==
    /\ "roomId" \in DOMAIN device
    /\ \E i \in 1..Len(rooms) : rooms[i].id = device.roomId

\* Line 1430: either str is a part of the other
name_match(device_name, utterance_lower) ==
    str_in(device_name, utterance_lower) \/ str_in(utterance_lower, device_name)

\* A hint that, once given, is the only room signal
room_match_hint_only(params, device, rooms, utterance_lower) ==
    IF "preferred_room_id" \in DOMAIN params
    THEN /\ "roomId" \in DOMAIN device
         /\ device.roomId = params.preferred_room_id
    ELSE /\ in_room_map(rooms, device)
         /\ str_in(room_map(rooms, device.roomId), utterance_lower)

\* Lines 1438-1443: the hint decides when it is given and equals the
\* device's room; otherwise the room's name is looked for in the utterance.
room_match(params, device, rooms, utterance_lower) ==
    IF /\ "preferred_room_id" \in DOMAIN params
       /\ "roomId" \in DOMAIN device
       /\ device.roomId = params.preferred_room_id
    THEN TRUE
    ELSE /\ in_room_map(rooms, device)
         /\ str_in(room_map(rooms, device.roomId), utterance_lower)

\* Line 1448
overlap(device_name, utterance_lower) == split_set(utterance_lower) \cap split_set(device_name)

\* The score of one device before the cap, lines 1424-1450
device_score(params, device, rooms) ==
    LET utterance_lower == lower(Chars(params.utterance))
        device_name == lower(Chars(dict_get(device, "name", "")))
        type_lower == lower(Chars(dict_get(device, "type", "")))
        s0 == Double(0, 0)
        s1 == IF name_match(device_name, utterance_lower) THEN double_add(s0, Double(5, 0)) ELSE s0
        s2 == IF str_in(type_lower, utterance_lower) THEN double_add(s1, Double(3, 0)) ELSE s1
        s3 == IF room_match(params, device, rooms, utterance_lower)
              THEN double_add(s2, Double(2, 0)) ELSE s2
        n == Cardinality(overlap(device_name, utterance_lower))
    IN IF n > 0 THEN double_add(s3, double_tenth_times(n)) ELSE s3

\* Lines 1422-1456: the devices with a positive score, in listing order
RECURSIVE collect_matches(_, _, _)
collect_matches(params, devices, rooms) ==
    IF devices = <<>> THEN <<>>
    ELSE LET score == device_score(params, Head(devices), rooms)
             rest == collect_matches(params, Tail(devices), rooms)
         IN IF double_gt(score, Double(0, 0))
            THEN <<[device |-> Head(devices), score |-> double_min(score, Double(10, 0))]>> \o rest
            ELSE rest

\* A descending sort that is not stable: among equal scores the later comes first.
RECURSIVE sort_matches_ties_reversed(_)
sort_matches_ties_reversed(matches) ==
    IF matches = <<>> THEN <<>>
    ELSE LET i == CHOOSE i \in 1..Len(matches) :
                      /\ \A j \in 1..Len(matches) : ~double_gt(matches[j].score, matches[i].score)
                      /\ \A j \in (i + 1)..Len(matches) : double_gt(matches[i].score, matches[j].score)
         IN <<matches[i]>> \o
            sort_matches_ties_reversed(SubSeq(matches, 1, i - 1) \o SubSeq(matches, i + 1, Len(matches)))

\* Line 1459: list.sort(reverse=True) is stable, so among equal scores the
\* listing order is kept.
RECURSIVE sort_matches(_)
sort_matches(matches) ==
    IF matches = <<>> THEN <<>>
    ELSE LET i == CHOOSE i \in 1..Len(matches) :
                      /\ \A j \in 1..Len(matches) : ~double_gt(matches[j].score, matches[i].score)
                      /\ \A j \in 1..(i - 1) : double_gt(matches[i].score, matches[j].score)
         IN <<matches[i]>> \o
            sort_matches(SubSeq(matches, 1, i - 1) \o SubSeq(matches, i + 1, Len(matches)))

\* device["id"], device["name"], device["type"] of lines 1475-1477 and
\* 1488-1490: the first key that is missing raises KeyError.
missing_key(device) ==
    CASE "id" \notin DOMAIN device -> "'id'"
      [] "name" \notin DOMAIN device -> "'name'"
      [] "type" \notin DOMAIN device -> "'type'"
      [] OTHER -> ""

first_five(matches) == SubSeq(matches, 1, IF Len(matches) < 5 THEN Len(matches) ELSE 5)

candidate(match) ==
    [device_id |-> match.device.id, name |-> match.device.name, type |-> match.device.type,
     subType |-> dict_get(match.device, "subType", NoneJson),
     room_id |-> dict_get(match.device, "roomId", NoneJson),
     confidence |-> double_round2(match.score)]

\* Lines 1461-1506 on the sorted matches: the response, or the KeyError
\* raised while building it.
resolve_response(params, matches) ==
    IF matches = <<>>
    THEN Outcome(NoException,
                 [resolved |-> FALSE, confidence |-> Double(0, 0),
                  original_utterance |-> params.utterance,
                  message |-> "No devices matched the description",
                  help |-> "Try using crestron_list_devices to see available devices"])
    ELSE IF double_ge(matches[1].score, Double(8, 0))
    THEN IF missing_key(matches[1].device) /= ""
         THEN Outcome(KeyError(missing_key(matches[1].device)), EmptyDict)
         ELSE Outcome(NoException,
                      [resolved |-> TRUE, confidence |-> matches[1].score,
                       device_id |-> matches[1].device.id,
                       device_name |-> matches[1].device.name,
                       device_type |-> matches[1].device.type,
                       room_id |-> dict_get(matches[1].device, "roomId", NoneJson),
                       original_utterance |-> params.utterance,
                       message |-> "Device successfully resolved"])
    ELSE LET top == first_five(matches)
         IN IF \E i \in 1..Len(top) : missing_key(top[i].device) /= ""
            THEN LET i == CHOOSE i \in 1..Len(top) :
                              /\ missing_key(top[i].device) /= ""
                              /\ \A j \in 1..(i - 1) : missing_key(top[j].device) = ""
                 IN Outcome(KeyError(missing_key(top[i].device)), EmptyDict)
            ELSE Outcome(NoException,
                         [resolved |-> FALSE, confidence |-> matches[1].score,
                          original_utterance |-> params.utterance,
                          clarification_needed |-> TRUE,
                          candidates |-> [i \in 1..Len(top) |-> candidate(top[i])],
                          message |-> <<"Found", Len(top), "possible matches">>])

\* crestron_resolve_device, lines 1408-1516; devices_data and rooms_data
\* are what the two awaited api_request calls gave (the second is made only
\* when the first did not raise).
crestron_resolve_device_result(params, devices_data, rooms_data) ==
    IF devices_data.raised /= NoException
    THEN listing_error(devices_data.raised, "Failed to resolve device")
    ELSE IF devices_data.data.kind /= "object"
    THEN listing_error(AttributeError, "Failed to resolve device")
    ELSE IF rooms_data.raised /= NoException
    THEN listing_error(rooms_data.raised, "Failed to resolve device")
    ELSE IF rooms_data.data.kind /= "object"
    THEN listing_error(AttributeError, "Failed to resolve device")
    ELSE LET devices == dict_get(devices_data.data.obj, "devices", <<>>)
             rooms == dict_get(rooms_data.data.obj, "rooms", <<>>)
             o == resolve_response(params, sort_matches(collect_matches(params, devices, rooms)))
         IN IF o.raised /= NoException
            THEN listing_error(o.raised, "Failed to resolve device")
            ELSE o.data

\* The utterances put to the resolver (stripped, at least one character).
Utterances ==
    {"soggiorno lampadario", "Lampadario Soggiorno acceso", "soggiorno", "shade soggiorno",
     "tapparella grande", "garage", "light", "light Lampadario Soggiorno"}

\* preferred_room_id is absent (None) or a room id of at least 1.
ResolveParams ==
    {[utterance |-> u] : u \in Utterances}
    \cup
    {[utterance |-> u, preferred_room_id |-> r] : u \in Utterances, r \in {1, 2}}

Lampadario(id) == [id |-> id, name |-> "Lampadario Soggiorno", type |-> "light", roomId |-> 1]

\* What GET /devices can list: the controller's devices as loaded, a light
\* without a name member, a light whose name is the empty str, six lights,
\* and no device at all.
DeviceListings ==
    {DEVICES_loaded,
     <<[id |-> 11, type |-> "light", roomId |-> 1]>> \o DEVICES_loaded,
     <<[id |-> 12, name |-> "", type |-> "light", roomId |-> 1]>> \o DEVICES_loaded,
     [i \in 1..6 |-> Lampadario(9 + i)],
     <<>>}

FetchFailures ==
    {Outcome(Exception("ValueError", NotAuthenticatedMsg, 0), NoResponse),
     api_request_complete(Net("none", Response(404, "object", [error |-> "Not found"]))),
     api_request_complete(Net("timeout", NoResponse))}

Fetched(key, value) == Outcome(NoException, Response(200, "object", [k \in {key} |-> value]))

ResolveInputs ==
    {[stage |-> "fetched", params |-> p, devices_data |-> Fetched("devices", d),
      rooms_data |-> Fetched("rooms", ROOMS)] : p \in ResolveParams, d \in DeviceListings}
    \cup
    {[stage |-> "fetched", params |-> [utterance |-> "garage"], devices_data |-> f,
      rooms_data |-> Fetched("rooms", ROOMS)] : f \in FetchFailures}
    \cup
    {[stage |-> "fetched", params |-> [utterance |-> "garage"],
      devices_data |-> Fetched("devices", DEVICES_loaded), rooms_data |-> f] : f \in FetchFailures}

InitResolve ==
    /\ Loaded
    /\ calc \in ResolveInputs

\* crestron_resolve_device from the point both listings are in hand.
Resolve ==
    /\ calc.stage = "fetched"
    /\ calc' = [stage |-> "resolved", params |-> calc.params,
                devices_data |-> calc.devices_data, rooms_data |-> calc.rooms_data,
                result |-> crestron_resolve_device_result(calc.params, calc.devices_data,
                                                          calc.rooms_data)]
    /\ UNCHANGED <<now, client, session, written, SESSIONS, DEVICES, task, last>>

NextResolve == Resolve

SpecResolve == InitResolve /\ [][NextResolve]_vars

\* ------------------------------------------------------------------------
\* crestron_resolve_device with its two awaited reads
\* ------------------------------------------------------------------------
\* A second controller, at the host "other": its credential and listings.
OTHER_KEY == <<"other">>
OTHER_ROOMS == <<[id |-> 1, name |-> "Cucina"]>>
OTHER_DEVICES == <<[id |-> 10, name |-> "Tapparella Grande", type |-> "shade", roomId |-> 1]>>

second_controller_login == Response(200, "object", [version |-> "9", AuthKey |-> OTHER_KEY])

second_controller(req) ==
    IF dict_get(req.headers, "AuthKey", NoneKey) /= OTHER_KEY
    THEN Unauthorized
    ELSE IF req.path = "/devices"
    THEN Response(200, "object", [devices |-> OTHER_DEVICES, version |-> "9"])
    ELSE IF req.path = "/rooms"
    THEN Response(200, "object", [rooms |-> OTHER_ROOMS, version |-> "9"])
    ELSE Response(404, "object", [error |-> "Endpoint not found"])

\* The rooms read has not been asked for.
NotRead == Outcome(Exception("NotRead", "", 0), NoResponse)

ReadsParams ==
    {[utterance |-> "soggiorno"], [utterance |-> "light", preferred_room_id |-> 1]}

Resolving == calc.stage \in {"devices", "rooms"}

\* crestron_resolve_device up to the awaited call of its first api_request
\* (line 1410).
CallResolveDevice(t, params) ==
    LET raised == api_request_check(session, client, "GET", TRUE, now)
        inv == [IdleTask EXCEPT !.tool = "resolve_device", !.params = params,
                                !.startValid = is_valid(session, now),
                                !.startKey = session.auth_key,
                                !.reads = written]
        req == api_request_build(session, "/devices", "GET", <<>>, TRUE)
    IN /\ MayStart(t)
       /\ ~Resolving
       /\ IF raised /= NoException
          THEN /\ task' = [task EXCEPT ![t] = DoneTask]
               /\ calc' = [stage |-> "resolved", t |-> t, params |-> params,
                           first |-> NoRequest, second |-> NoRequest,
                           devices_data |-> Outcome(raised, NoResponse), rooms_data |-> NotRead,
                           result |-> crestron_resolve_device_result(
                                          params, Outcome(raised, NoResponse), NotRead)]
               /\ last' = Returned(t, inv, raised,
                              crestron_resolve_device_result(
                                  params, Outcome(raised, NoResponse), NotRead))
          ELSE /\ task' = [task EXCEPT ![t] =
                      [inv EXCEPT !.pc = "sent", !.req = req, !.sentAt = now, !.sends = 1]]
               /\ calc' = [stage |-> "devices", t |-> t, params |-> params,
                           first |-> req, second |-> NoRequest,
                           devices_data |-> NotRead, rooms_data |-> NotRead,
                           result |-> EmptyDict]
               /\ last' = NoReturn
       /\ UNCHANGED <<now, client, session, written, SESSIONS, DEVICES>>

\* A resolver that asks for the rooms whatever the devices read gave.
DevicesRead_rooms_regardless(t, n) ==
    LET devices_data == api_request_complete(n)
        req == api_request_build(session, "/rooms", "GET", <<>>, TRUE)
    IN /\ task' = [task EXCEPT ![t] =
                      [@ EXCEPT !.req = req, !.sentAt = now, !.sends = 2, !.net = n]]
       /\ calc' = [calc EXCEPT !.stage = "rooms", !.second = req,
                               !.devices_data = devices_data]
       /\ last' = NoReturn

\* The first read of t completes with n: lines 1410-1414 up to the awaited
\* call of the second api_request, or the return when something was raised.
DevicesRead(t, n) ==
    LET devices_data == api_request_complete(n)
        raised == api_request_check(session, client, "GET", TRUE, now)
        req == api_request_build(session, "/rooms", "GET", <<>>, TRUE)
        inv == [task[t] EXCEPT !.net = n]
    IN IF devices_data.raised /= NoException \/ devices_data.data.kind /= "object"
       THEN /\ task' = [task EXCEPT ![t] = DoneTask]
            /\ calc' = [calc EXCEPT !.stage = "resolved", !.devices_data = devices_data,
                           !.result = crestron_resolve_device_result(
                                          calc.params, devices_data, NotRead)]
            /\ last' = Returned(t, inv,
                           IF devices_data.raised /= NoException
                           THEN devices_data.raised ELSE AttributeError,
                           crestron_resolve_device_result(calc.params, devices_data, NotRead))
       ELSE IF raised /= NoException
       THEN /\ task' = [task EXCEPT ![t] = DoneTask]
            /\ calc' = [calc EXCEPT !.stage = "resolved", !.devices_data = devices_data,
                           !.rooms_data = Outcome(raised, NoResponse),
                           !.result = crestron_resolve_device_result(
                                          calc.params, devices_data, Outcome(raised, NoResponse))]
            /\ last' = Returned(t, inv, raised,
                           crestron_resolve_device_result(
                               calc.params, devices_data, Outcome(raised, NoResponse)))
       ELSE /\ task' = [task EXCEPT ![t] =
                          [@ EXCEPT !.req = req, !.sentAt = now, !.sends = 2, !.net = n]]
            /\ calc' = [calc EXCEPT !.stage = "rooms", !.second = req,
                                    !.devices_data = devices_data]
            /\ last' = NoReturn

\* The second read of t completes with n: lines 1414-1516.
RoomsRead(t, n) ==
    LET rooms_data == api_request_complete(n)
        result == crestron_resolve_device_result(calc.params, calc.devices_data, rooms_data)
    IN /\ task' = [task EXCEPT ![t] = DoneTask]
       /\ calc' = [calc EXCEPT !.stage = "resolved", !.rooms_data = rooms_data,
                               !.result = result]
       /\ last' = Returned(t, [task[t] EXCEPT !.net = n],
                      IF rooms_data.raised /= NoException THEN rooms_data.raised
                      ELSE IF rooms_data.data.kind /= "object" THEN AttributeError
                      ELSE NoException,
                      result)

\* The awaited read of the resolution t completes with n.
ReadAnswered(t, n) ==
    /\ task[t].pc = "sent"
    /\ task[t].tool = "resolve_device"
    /\ IF calc.stage = "devices" THEN DevicesRead(t, n) ELSE RoomsRead(t, n)
    /\ UNCHANGED <<now, client, session, written>>

\* The controller serves the read of t, and the answer arrives.
ReadControllerReply(t) ==
    /\ task[t].req.host = "crestron"
    /\ LET h == mock_handle(SESSIONS, DEVICES, task[t].req, now)
       IN /\ SESSIONS' = h.sessions
          /\ DEVICES' = h.devices
          /\ ReadAnswered(t, Net("none", h.resp))

\* The second controller serves the read of t, and the answer arrives.
ReadSecondReply(t) ==
    /\ task[t].req.host = "other"
    /\ ReadAnswered(t, Net("none", second_controller(task[t].req)))
    /\ UNCHANGED <<SESSIONS, DEVICES>>

ReadTimeout(t) ==
    /\ now - task[t].sentAt >= API_TIMEOUT
    /\ ReadAnswered(t, Net("timeout", NoResponse))
    /\ UNCHANGED <<SESSIONS, DEVICES>>

\* What the host "other" answers to a login: the second controller's
\* credential, or an object without one.
SecondLoginAnswers == {second_controller_login, Response(200, "object", [version |-> "9"])}

\* The host "other" answers the login of t, and the answer arrives.
SecondLogin(t, resp) ==
    /\ task[t].tool = "authenticate"
    /\ OtherReply(t, resp)

LoginTimeout(t) ==
    /\ task[t].tool = "authenticate"
    /\ Timeout(t)

NoLoginInFlight == \A u \in Tasks : InFlight(u) => task[u].tool /= "authenticate"

\* The server, two controllers, logins one at a time and resolutions, over
\* the span of one timeout after a login.
NextReads ==
    \/ AppLifespan
    \/ Tick(MaxBatchTime)
    \/ \E t \in Tasks, host \in {"crestron", "other"} :
          NoLoginInFlight /\ CallAuthenticate(t, host, AUTH_TOKEN)
    \/ \E t \in Tasks, params \in ReadsParams : CallResolveDevice(t, params)
    \/ \E t \in Tasks : ControllerLogin(t)
    \/ \E t \in Tasks : Receive(t)
    \/ \E t \in Tasks, resp \in SecondLoginAnswers : SecondLogin(t, resp)
    \/ \E t \in Tasks : LoginTimeout(t)
    \/ \E t \in Tasks : ReadControllerReply(t)
    \/ \E t \in Tasks : ReadSecondReply(t)
    \/ \E t \in Tasks : ReadTimeout(t)

SpecReads == Init /\ [][NextReads]_vars

\* ------------------------------------------------------------------------
\* truncate_response
\* ------------------------------------------------------------------------
CHARACTER_LIMIT == 25000

\* A string is a sequence of runs of characters: characters from..to of a
\* named text, or the truncation notice, of which the numbers it prints and
\* which of its two closing sentences it has are kept.
Run(text, from, to) == [text |-> text, from |-> from, to |-> to]

Notice(original, limit, many) ==
    [text |-> "Response Truncated", original |-> original, limit |-> limit,
     hint |-> IF many THEN "Try using filters, reducing the limit parameter"
              ELSE "Try requesting specific items"]

RunLen(r) == IF "from" \in DOMAIN r THEN r.to - r.from + 1 ELSE 0

RECURSIVE StrLen(_)
\* len(response), the notice not counted
StrLen(str) == IF str = <<>> THEN 0 ELSE RunLen(Head(str)) + StrLen(Tail(str))

RECURSIVE StrPrefix(_, _)
\* response[:n]
StrPrefix(str, n) ==
    IF str = <<>> \/ n <= 0 THEN <<>>
    ELSE IF RunLen(Head(str)) <= n
    THEN <<Head(str)>> \o StrPrefix(Tail(str), n - RunLen(Head(str)))
    ELSE <<[Head(str) EXCEPT !.to = Head(str).from + n - 1]>>

\* A truncation that cuts responses of exactly the limit too.
truncate_response_strict(response, items_count) ==
    IF StrLen(response) < CHARACTER_LIMIT
    THEN response
    ELSE StrPrefix(response, CHARACTER_LIMIT - 1)
         \o <<Notice(StrLen(response), CHARACTER_LIMIT, items_count > 0)>>

\* Lines 219-238
truncate_response(response, items_count) ==
    IF StrLen(response) <= CHARACTER_LIMIT
    THEN response
    ELSE StrPrefix(response, CHARACTER_LIMIT)
         \o <<Notice(StrLen(response), CHARACTER_LIMIT, items_count > 0)>>

\* The tools that list, and the last statement of the try block of each.
ListingTools == {"list_rooms", "list_devices", "get_shades", "list_scenes",
                 "get_thermostats", "get_sensors"}

listing_return(tool, result, items_count) == truncate_response(result, items_count)

\* The response lengths tried: up to TruncateMargin either side of the limit.
TruncateMargin == 40
ResponseLengths ==
    {0} \cup ((CHARACTER_LIMIT - TruncateMargin)..(CHARACTER_LIMIT + TruncateMargin))

\* The response a listing tool has built, and the number of items in it.
TruncateInputs ==
    {[stage |-> "built", tool |-> tool,
      result |-> IF n = 0 THEN <<>> ELSE <<Run("result", 1, n)>>,
      items_count |-> c] :
        tool \in ListingTools, n \in ResponseLengths, c \in {0, 1}}

InitTruncate ==
    /\ Loaded
    /\ calc \in TruncateInputs

\* A listing tool returns.
ListingReturn ==
    /\ calc.stage = "built"
    /\ calc' = [stage |-> "returned", tool |-> calc.tool, result |-> calc.result,
                items_count |-> calc.items_count,
                returned |-> listing_return(calc.tool, calc.result, calc.items_count)]
    /\ UNCHANGED <<now, client, session, written, SESSIONS, DEVICES, task, last>>

NextTruncate == ListingReturn

SpecTruncate == InitTruncate /\ [][NextTruncate]_vars

\* ------------------------------------------------------------------------
\* Properties
\* ------------------------------------------------------------------------
ApiTools == {"list_rooms", "set_shade_position", "set_thermostat_mode", "set_thermostat_fan"}
BatchTools == {"set_shade_position", "set_thermostat_mode", "set_thermostat_fan"}

\* The login of the invocation that just returned was rejected with a
\* non-2xx response, or its network call failed.
LoginRejected(r) ==
    /\ r.tool = "authenticate"
    /\ r.sends = 1
    /\ r.net.error /= "none" \/ ~is_success(r.net.resp)

\* C1: a failed authenticate (login answered non-2xx, or network failure)
\* leaves host, credential and issuance time as they were, so a session
\* valid before it is valid after it and api_request still admits calls.
C1_FailedAuthenticateKeepsSession ==
    [][LoginRejected(last') =>
          /\ session' = session
          /\ is_valid(session, now) =>
                api_request_check(session', client', "GET", TRUE, now') = NoException]_vars

C1_Witness ==
    /\ LoginRejected(last)
    /\ last.startValid
    /\ is_valid(session, now)
    /\ api_request_check(session, client, "GET", TRUE, now) = NoException

\* C2: an api_request with require_auth made while is_valid() is false fails
\* with the not-authenticated error and sends nothing to the remote.
C2_InvalidSessionSendsNothing ==
    /\ \A t \in Tasks : InFlight(t) /\ task[t].tool \in ApiTools => task[t].startValid
    /\ (last.tool \in ApiTools /\ ~last.startValid) =>
          /\ last.sends = 0
          /\ last.req = NoRequest
          /\ last.raised = Exception("ValueError", NotAuthenticatedMsg, 0)

C2_Witness ==
    /\ last.tool = "list_rooms"
    /\ ~last.startValid
    /\ last.sends = 0
    /\ TruthyKey(session.auth_key)
    /\ now - session.session_start >= SESSION_TIMEOUT

\* The invocation that just returned is an authenticate that succeeded.
LoginSucceeded(r) ==
    /\ r.tool = "authenticate"
    /\ r.raised = NoException
    /\ r.sends = 1

\* C3: right after an authenticate that succeeds, the session holds the host
\* of that call, the credential of that login response and the current time,
\* and is_valid() is true.
C3_SuccessfulAuthenticateIsValid ==
    LoginSucceeded(last) =>
        /\ session.host = last.params.host
        /\ "AuthKey" \in DOMAIN last.net.resp.obj
        /\ session.auth_key = last.net.resp.obj.AuthKey
        /\ session.session_start = now
        /\ is_valid(session, now)

\* C4: is_valid() is true exactly when a credential is stored (non-empty),
\* an issuance time is stored, and less than 540 seconds have elapsed since.
C4_IsValidIff ==
    is_valid(session, now) <=>
        /\ session.auth_key /= NoneKey
        /\ session.auth_key /= EmptyKey
        /\ session.session_start /= NoneTime
        /\ now - session.session_start < 540

\* C5: validity goes from false to true only in a step in which an
\* authenticate succeeds, and only authenticate sends a login request.
C5_OnlyAuthenticateValidates ==
    /\ [][(~is_valid(session, now) /\ is_valid(session', now')) => LoginSucceeded(last')]_vars
    /\ [](\A t \in Tasks : task[t].req.path = "/login" => task[t].tool = "authenticate")

C5_Witness ==
    /\ LoginSucceeded(last)
    /\ ~last.startValid
    /\ TruthyKey(last.startKey)
    /\ now >= SESSION_TIMEOUT
    /\ is_valid(session, now)

\* C6: a call admitted by is_valid() is not rejected by the controller as
\* expired: the controller still knows the credential when the request
\* reaches it.
C6_AdmittedNotExpired ==
    (/\ last.tool \in ApiTools
     /\ last.sends = 1
     /\ last.req.host = "crestron"
     /\ last.reads.auth_key[1] = "crestron"
     /\ last.net.error = "none") => last.net.resp /= Unauthorized

C6_Witness ==
    /\ last.tool = "list_rooms"
    /\ last.req.host = "crestron"
    /\ last.net.error = "none"
    /\ last.net.resp.status_code = 200
    /\ now - last.reads.session_start[2] >= SESSION_TIMEOUT

\* C7: every api_request reads a host, a credential and an issuance time
\* assigned by one and the same authenticate.
C7_NoTornRead ==
    /\ \A t \in Tasks : InFlight(t) /\ task[t].tool \in ApiTools =>
          /\ task[t].reads.host = task[t].reads.auth_key
          /\ task[t].reads.auth_key = task[t].reads.session_start
    /\ (last.tool \in ApiTools /\ last.sends = 1) =>
          /\ last.reads.host = last.reads.auth_key
          /\ last.reads.auth_key = last.reads.session_start

\* C8: an api_request that reaches the network carries the credential the
\* session held when the call started, and a non-2xx answer makes it fail
\* with an error carrying that status.
C8_CredentialAndStatus ==
    /\ \A t \in Tasks : InFlight(t) /\ task[t].tool \in ApiTools =>
          task[t].req.headers = [AuthKey |-> task[t].startKey]
    /\ (last.tool \in ApiTools /\ last.sends = 1) =>
          /\ last.req.headers = [AuthKey |-> last.startKey]
          /\ (last.net.error = "none" /\ ~is_success(last.net.resp)) =>
                /\ IsHTTPStatusError(last.raised)
                /\ last.raised.status_code = last.net.resp.status_code
                /\ "error" \in DOMAIN last.result

C8_Witness ==
    /\ last.tool = "list_rooms"
    /\ last.sends = 1
    /\ TruthyKey(last.startKey)
    /\ last.net.error = "none"
    /\ last.net.resp.status_code = 404
    /\ last.raised.status_code = 404

\* The request body of a batch invocation carries every command of the
\* batch, once each, in the caller's order.
WholeBatchInOrder(r) ==
    IF r.tool = "set_shade_position"
    THEN /\ DOMAIN r.req.body = {"shades"}
         /\ Len(r.req.body.shades) = Len(r.params.shades)
         /\ \A i \in 1..Len(r.params.shades) :
               r.req.body.shades[i].id = r.params.shades[i].id
    ELSE /\ DOMAIN r.req.body = {"thermostats"}
         /\ Len(r.req.body.thermostats) = Len(r.params.thermostats)
         /\ \A i \in 1..Len(r.params.thermostats) :
               /\ r.req.body.thermostats[i].id = r.params.thermostats[i].id
               /\ r.req.body.thermostats[i].mode = r.params.thermostats[i].mode

\* C9: an invocation of a batch tool sends at most one remote call, and that
\* call carries every command of the batch in the caller's order, whatever
\* the outcome.
C9_OneCallWholeBatch ==
    /\ \A t \in Tasks : task[t].tool \in BatchTools =>
          /\ task[t].sends <= 1
          /\ InFlight(t) => task[t].sends = 1 /\ WholeBatchInOrder(task[t])
    /\ last.tool \in BatchTools =>
          /\ last.sends <= 1
          /\ last.sends = 1 => WholeBatchInOrder(last)

C9_Witness ==
    /\ last.tool = "set_shade_position"
    /\ Len(last.params.shades) = MaxBatch
    /\ last.sends = 1
    /\ last.raised = NoException
    /\ "status" \in DOMAIN last.result
    /\ last.result.status = "partial"
    /\ last.result.shades_updated = MaxBatch

\* The batch result the caller is promised for a commanded set of ids and
\* the ids the remote reported as failing.
BatchResult(commanded, failed) ==
    LET succeeded == commanded \ failed
    IN [outcome |-> IF succeeded = {} THEN "failure"
                    ELSE IF failed = {} THEN "success"
                    ELSE "partial",
        succeededIds |-> succeeded,
        failedIds |-> failed]

SeqToSet(q) == {q[i] : i \in DOMAIN q}

\* C10: for a set-shade batch answered by the remote with a per-item error
\* list, the result names as failed the ids the remote reported, as
\* succeeded the other commanded ids, and its outcome is success, failure or
\* partial by those two sets alone.
C10_BatchOutcome ==
    (/\ last.tool = "set_shade_position"
     /\ last.raised = NoException
     /\ last.net.resp.kind = "object") =>
        LET commanded == {last.params.shades[i].id : i \in DOMAIN last.params.shades}
            reported == SeqToSet(dict_get(last.net.resp.obj, "errorDevices", <<>>))
            promised == BatchResult(commanded, reported)
        IN /\ last.result.status = promised.outcome
           /\ last.result.shades_updated = Cardinality(promised.succeededIds)
           /\ "failed" \in DOMAIN last.result
           /\ SeqToSet(last.result.failed) = promised.failedIds
           /\ "success" \in DOMAIN last.result
           /\ SeqToSet(last.result.success) = promised.succeededIds

\* C11: set thermostat mode and set thermostat fan compute the status they
\* return from the remote's per-item error list: success only when the
\* remote reported no failing thermostat, partial or failure when it did.
C11_ThermostatStatusFromErrorList ==
    (/\ last.tool \in {"set_thermostat_mode", "set_thermostat_fan"}
     /\ last.raised = NoException
     /\ last.net.resp.kind = "object") =>
        LET reported == SeqToSet(dict_get(last.net.resp.obj, "errorDevices", <<>>))
        IN /\ "status" \in DOMAIN last.result
           /\ last.result.status = "success" <=> reported = {}
           /\ reported /= {} => last.result.status \in {"partial", "failure"}

\* x / d rounded to the nearest integer, halves up (x >= 0, d > 0).
RoundDiv(x, d) == (2 * x + d) \div (2 * d)

\* C12: the raw position written for a percentage pct in 0..100 is
\* round(pct * 65535 / 100), and the percentage shown for a raw position in
\* 0..65535 is floor(raw * 100 / 65535).
C12_RoundOnWriteFloorOnRead ==
    /\ (calc.stage \in {"written", "shown"} /\ "pct" \in DOMAIN calc) =>
          calc.raw = RoundDiv(calc.pct * 65535, 100)
    /\ calc.stage = "shown" =>
          /\ calc.shown * 65535 <= calc.raw * 100
          /\ calc.raw * 100 < (calc.shown + 1) * 65535

\* C13: a percentage written and read back is within 1 of itself; 0 is
\* written as 0 and 100 as 65535; every raw value written is in 0..65535.
C13_RoundTrip ==
    (calc.stage \in {"written", "shown"} /\ "pct" \in DOMAIN calc) =>
        /\ calc.raw \in 0..65535
        /\ calc.pct = 0 => calc.raw = 0
        /\ calc.pct = 100 => calc.raw = 65535
        /\ calc.stage = "shown" =>
              /\ calc.shown - calc.pct \in -1..1

C13_Witness ==
    /\ calc.stage = "shown"
    /\ "pct" \in DOMAIN calc
    /\ calc.pct = 1
    /\ calc.raw = 655
    /\ calc.shown = 0

\* C14: what a listing tool returns is its response unchanged when that has
\* at most 25,000 characters, and otherwise exactly its first 25,000
\* characters followed by a notice stating the original length and the
\* 25,000 limit.
C14_TruncateAtLimit ==
    calc.stage = "returned" =>
        LET n == StrLen(calc.result)
        IN /\ n <= 25000 => calc.returned = calc.result
           /\ n > 25000 =>
                 /\ Len(calc.returned) = 2
                 /\ calc.returned[1] = Run("result", 1, 25000)
                 /\ calc.returned[2].text = "Response Truncated"
                 /\ calc.returned[2].original = n
                 /\ calc.returned[2].limit = 25000
           /\ StrLen(calc.returned) <= 25000

C14_Witness ==
    /\ calc.stage = "returned"
    /\ calc.tool = "list_devices"
    /\ StrLen(calc.result) = 25001
    /\ StrLen(calc.returned) = 25000
    /\ Len(calc.returned) = 2


\* C15: Scenario A. Resolving "soggiorno lampadario" with no room hint over
\* the controller's devices, where "Lampadario Soggiorno" is in room 1 named
\* "Soggiorno", scores that device at least 0.8 and returns it as resolved.
ScenarioA ==
    /\ calc.stage = "resolved"
    /\ calc.params = [utterance |-> "soggiorno lampadario"]
    /\ calc.devices_data = Fetched("devices", DEVICES_loaded)
    /\ calc.rooms_data = Fetched("rooms", ROOMS)

C15_ScenarioAResolved ==
    ScenarioA =>
        /\ double_ge(device_score(calc.params, DEVICES_loaded[1], ROOMS), Double(8, 0))
        /\ "resolved" \in DOMAIN calc.result
        /\ calc.result.resolved
        /\ calc.result.device_id = DEVICES_loaded[1].id

\* Both listings were fetched and the resolver has returned.
ResolvedFromListings ==
    /\ calc.stage = "resolved"
    /\ calc.devices_data.raised = NoException
    /\ calc.rooms_data.raised = NoException

\* The sorted candidate list of a returned resolution
SortedMatches ==
    sort_matches(collect_matches(calc.params, calc.devices_data.data.obj.devices,
                                 calc.rooms_data.data.obj.rooms))

\* C16: the decision is one of three outcomes, read off the sorted candidate
\* list: no candidate gives unresolved with confidence 0 and no candidates;
\* a top score of at least 0.8 gives resolved with the first candidate's id
\* and score; otherwise unresolved, clarification needed, and the first
\* min(5, number of candidates) candidates in sorted order.
C16_ThreeWayDecision ==
    ResolvedFromListings =>
        LET ms == SortedMatches
            n == IF Len(ms) < 5 THEN Len(ms) ELSE 5
        IN /\ "resolved" \in DOMAIN calc.result
           /\ ms = <<>> =>
                  /\ ~calc.result.resolved
                  /\ calc.result.confidence = Double(0, 0)
                  /\ DOMAIN calc.result \cap {"device_id", "candidates"} = {}
           /\ (ms /= <<>> /\ double_ge(ms[1].score, Double(8, 0))) =>
                  /\ calc.result.resolved
                  /\ calc.result.device_id = ms[1].device.id
                  /\ calc.result.confidence = ms[1].score
           /\ (ms /= <<>> /\ ~double_ge(ms[1].score, Double(8, 0))) =>
                  /\ ~calc.result.resolved
                  /\ calc.result.clarification_needed
                  /\ Len(calc.result.candidates) = n
                  /\ \A i \in 1..n : calc.result.candidates[i].device_id = ms[i].device.id

\* The device's name shares nothing with the utterance: the device has no
\* name, or neither str is a part of the other and no word is shared.
SharesNothing(device, utterance) ==
    LET device_name == lower(Chars(dict_get(device, "name", "")))
        utterance_lower == lower(Chars(utterance))
    IN \/ device_name = <<>>
       \/ /\ ~name_match(device_name, utterance_lower)
          /\ overlap(device_name, utterance_lower) = {}

\* C17: a device whose name shares nothing with the utterance scores below
\* 0.8, whatever its type and room contribute, and is never the device
\* returned as resolved.
C17_TypeOrRoomAloneBelowBar ==
    ResolvedFromListings =>
        \A i \in 1..Len(calc.devices_data.data.obj.devices) :
            LET device == calc.devices_data.data.obj.devices[i]
            IN SharesNothing(device, calc.params.utterance) =>
                   /\ ~double_ge(device_score(calc.params, device, calc.rooms_data.data.obj.rooms),
                                 Double(8, 0))
                   /\ ~(/\ "resolved" \in DOMAIN calc.result
                        /\ calc.result.resolved
                        /\ calc.result.device_id = device.id)

\* The result reports success.
ReportsSuccess(result) == "status" \in DOMAIN result /\ result.status = "success"

\* The remote answered the call that just returned with a 2xx object whose
\* status is partial.
RemoteReportedPartial ==
    /\ last.raised = NoException
    /\ last.net.resp.kind = "object"
    /\ dict_get(last.net.resp.obj, "status", "") = "partial"

FailureCause ==
    CASE last.sends = 0 /\ ~last.startValid -> "not_authenticated"
      [] last.sends = 1 /\ last.net.error = "timeout" -> "timeout"
      [] last.sends = 1 /\ last.net.error = "none" /\ ~is_success(last.net.resp) -> "remote_status"
      [] OTHER -> "other"

\* The failure kind a caller reads off the exception api_request raised
RaisedKind(raised) ==
    CASE raised.type = "ValueError" /\ raised.msg = NotAuthenticatedMsg -> "not_authenticated"
      [] raised.type = "TimeoutException" -> "timeout"
      [] raised.type = "HTTPStatusError" -> "remote_status"
      [] OTHER -> "other"

\* The failure kind a caller reads off the result a tool returned
ResultKind(result) ==
    CASE "error" \notin DOMAIN result -> "other"
      [] result.error = NotAuthenticatedMsg -> "not_authenticated"
      [] "details" \in DOMAIN result /\ result.details = "" -> "timeout"
      [] "details" \in DOMAIN result
             /\ result.details \in {status_text(code) : code \in 400..599} -> "remote_status"
      [] OTHER -> "other"

\* C19: a timeout can be told apart from the not-authenticated error and
\* from the remote-status error. For every tool built on api_request, the
\* exception api_request raised and the result the tool returned each
\* determine which of the three failures happened.
C19_TimeoutDistinct ==
    (last.tool \in ApiTools /\ FailureCause /= "other") =>
        /\ RaisedKind(last.raised) = FailureCause
        /\ ResultKind(last.result) = FailureCause

\* List rooms timed out and returned the timeout's result.
C19_Witness ==
    /\ last.tool = "list_rooms"
    /\ FailureCause = "timeout"
    /\ last.result = [error |-> "Failed to retrieve rooms", details |-> ""]

\* C20: every result a mutate tool returns carries a status that is one of
\* success, partial, failure and error, and is error on every failure
\* path; every resolution result carries resolved and confidence, with
\* device_id present exactly when resolved is true and candidates present
\* exactly when clarification is needed.
C20_ResultShape ==
    /\ last.tool \in BatchTools =>
           /\ "status" \in DOMAIN last.result
           /\ last.result.status \in {"success", "partial", "failure", "error"}
           /\ last.raised /= NoException => last.result.status = "error"
    /\ calc.stage = "resolved" =>
           /\ {"resolved", "confidence"} \subseteq DOMAIN calc.result
           /\ "device_id" \in DOMAIN calc.result <=> calc.result.resolved
           /\ "candidates" \in DOMAIN calc.result <=>
                  dict_get(calc.result, "clarification_needed", FALSE)

\* C21: clear leaves the session with no credential and no issuance time,
\* so is_valid() is false afterwards, and it is idempotent: clearing the
\* cleared session, or a session that never existed, changes nothing more.
C21_ClearInvalidatesIdempotent ==
    [][Clear =>
          /\ session'.auth_key = NoneKey
          /\ session'.session_start = NoneTime
          /\ session'.host = session.host
          /\ ~is_valid(session', now')
          /\ clear(session') = session'
          /\ (session = CrestronSession_init => session' = CrestronSession_init)]_vars

\* clear has just ended a session that was valid.
C21_Witness ==
    /\ calc.stage = "cleared"
    /\ is_valid(calc.before, now)
    /\ session = clear(calc.before)
    /\ ~is_valid(session, now)

\* The api_request of invocation t is awaiting the remote.
Pending(t) == task[t].pc = "sent" /\ task[t].tool \in ApiTools

\* C22: every api_request that passed the validity check and was sent
\* eventually completes, given that the remote answers or the timeout fires;
\* and while it is pending its completion is enabled whatever other calls
\* are pending: no call waits for another in the process.
C22_EveryCallCompletes ==
    /\ [](\A t \in Tasks : Pending(t) => ENABLED Settle(t))
    /\ \A t \in Tasks : Pending(t) ~> (task[t].pc = "done")

\* An api_request has returned while one started before it is still pending.
C22_Witness ==
    /\ last.tool \in ApiTools
    /\ last.sends = 1
    /\ \E u \in Tasks : u < last.t /\ Pending(u)

\* The devices and rooms a returned resolution worked on
ListedDevices == calc.devices_data.data.obj.devices
ListedRooms == calc.rooms_data.data.obj.rooms

Signal(b) == IF b THEN 1 ELSE 0

\* The room signal: the hint equals the device's room id, or else the name
\* of the device's room is a part of the utterance.
RoomSignal(params, device, rooms) ==
    LET utterance_lower == lower(Chars(params.utterance))
        hinted == /\ "preferred_room_id" \in DOMAIN params
                  /\ "roomId" \in DOMAIN device
                  /\ params.preferred_room_id = device.roomId
        named == \E i \in 1..Len(rooms) :
                     /\ "roomId" \in DOMAIN device
                     /\ rooms[i].id = device.roomId
                     /\ str_in(lower(Chars(rooms[i].name)), utterance_lower)
    IN hinted \/ named

\* Ten times the score of the weights taken as decimal numbers:
\* min(1.0, 0.5 [name] + 0.3 [type] + 0.2 [room] + 0.1 * shared tokens)
DecimalScoreTenths(params, device, rooms) ==
    LET utterance_lower == lower(Chars(params.utterance))
        device_name == lower(Chars(dict_get(device, "name", "")))
        type_lower == lower(Chars(dict_get(device, "type", "")))
        sum == 5 * Signal(str_in(device_name, utterance_lower) \/ str_in(utterance_lower, device_name))
               + 3 * Signal(str_in(type_lower, utterance_lower))
               + 2 * Signal(RoomSignal(params, device, rooms))
               + Cardinality(split_set(utterance_lower) \cap split_set(device_name))
    IN IF sum > 10 THEN 10 ELSE sum

\* C23: the score of every device equals min(1.0, 0.5 [name is a part of the
\* utterance or the utterance of the name] + 0.3 [type is a part of the
\* utterance] + 0.2 [room signal] + 0.1 * (number of distinct tokens shared
\* by utterance and name)), all lower-cased.
C23_ScoreFormula ==
    ResolvedFromListings =>
        \A i \in 1..Len(ListedDevices) :
            double_min(device_score(calc.params, ListedDevices[i], ListedRooms), Double(10, 0))
                = Double(DecimalScoreTenths(calc.params, ListedDevices[i], ListedRooms), 0)

\* The candidates of a returned resolution that asks for clarification
HasCandidates ==
    /\ ResolvedFromListings
    /\ "candidates" \in DOMAIN calc.result

CandidateIds == [i \in 1..Len(calc.result.candidates) |-> calc.result.candidates[i].device_id]

ListingIndex(id) == CHOOSE i \in 1..Len(ListedDevices) : ListedDevices[i].id = id

ScoreOfId(id) == device_score(calc.params, ListedDevices[ListingIndex(id)], ListedRooms)

\* The ids of the listed devices whose score is greater than 0
PositiveIds ==
    {ListedDevices[i].id : i \in {j \in 1..Len(ListedDevices) :
        double_gt(device_score(calc.params, ListedDevices[j], ListedRooms), Double(0, 0))}}

\* a ranks before b: a higher score, or the same score and earlier in the listing
RanksBefore(a, b) ==
    \/ double_gt(ScoreOfId(a), ScoreOfId(b))
    \/ /\ ScoreOfId(a) = ScoreOfId(b)
       /\ ListingIndex(a) < ListingIndex(b)

CandidatesRanked ==
    \A i \in 1..Len(CandidateIds) : \A j \in (i + 1)..Len(CandidateIds) :
        RanksBefore(CandidateIds[i], CandidateIds[j])

\* C24 as stated: the candidate list holds exactly the devices with a score
\* greater than 0, by score descending, equal scores in listing order.
C24_AllPositiveListed ==
    HasCandidates =>
        /\ {CandidateIds[i] : i \in 1..Len(CandidateIds)} = PositiveIds
        /\ CandidatesRanked

\* C24: the candidate list holds the first five (all, when there are fewer)
\* of the devices with a score greater than 0, ranked by score descending
\* and, among equal scores, by listing order: every candidate has a positive
\* score, candidates are in rank order, and every positive-score device
\* left out ranks after every candidate.
C24_FirstFiveRanked ==
    HasCandidates =>
        LET ids == {CandidateIds[i] : i \in 1..Len(CandidateIds)}
        IN /\ ids \subseteq PositiveIds
           /\ Len(CandidateIds) = IF Cardinality(PositiveIds) < 5 THEN Cardinality(PositiveIds) ELSE 5
           /\ CandidatesRanked
           /\ \A a \in ids : \A b \in PositiveIds \ ids : RanksBefore(a, b)

\* Six devices tie at 0.3; five are returned, in listing order.
C24_Witness ==
    /\ HasCandidates
    /\ Cardinality(PositiveIds) = 6
    /\ \A a \in PositiveIds : ScoreOfId(a) = Double(3, 0)
    /\ CandidateIds = <<10, 11, 12, 13, 14>>

\* Devices with different positive scores, later in the listing the higher
C24_WitnessRanked ==
    /\ HasCandidates
    /\ \E i \in 1..Len(CandidateIds) : \E j \in 1..Len(CandidateIds) :
           /\ i < j
           /\ ListingIndex(CandidateIds[i]) > ListingIndex(CandidateIds[j])

\* The four matching signals of a device: name, type, room, shared tokens
Signals(params, device, rooms) ==
    LET utterance_lower == lower(Chars(params.utterance))
        device_name == lower(Chars(dict_get(device, "name", "")))
        type_lower == lower(Chars(dict_get(device, "type", "")))
    IN [name |-> Signal(str_in(device_name, utterance_lower) \/ str_in(utterance_lower, device_name)),
        type |-> Signal(str_in(type_lower, utterance_lower)),
        room |-> Signal(RoomSignal(params, device, rooms)),
        tokens |-> Cardinality(split_set(utterance_lower) \cap split_set(device_name))]

SignalsAtMost(a, b) ==
    /\ a.name <= b.name
    /\ a.type <= b.type
    /\ a.room <= b.room
    /\ a.tokens <= b.tokens

\* The same resolution without the room hint
Unhinted(params) == [utterance |-> params.utterance]

CappedScore(params, device, rooms) == double_min(device_score(params, device, rooms), Double(10, 0))

\* C25: the score never falls when a signal is added and never exceeds
\* 1.0: with a room hint no device scores lower than without it, a device
\* whose signals are all at least another's scores at least as much, and
\* every candidate's score is greater than 0 and at most 1.0.
C25_MonotoneCapped ==
    ResolvedFromListings =>
        /\ \A i \in 1..Len(ListedDevices) :
               /\ double_ge(CappedScore(calc.params, ListedDevices[i], ListedRooms),
                            CappedScore(Unhinted(calc.params), ListedDevices[i], ListedRooms))
               /\ double_ge(Double(10, 0), CappedScore(calc.params, ListedDevices[i], ListedRooms))
        /\ \A i \in 1..Len(ListedDevices) : \A j \in 1..Len(ListedDevices) :
               SignalsAtMost(Signals(calc.params, ListedDevices[i], ListedRooms),
                             Signals(calc.params, ListedDevices[j], ListedRooms))
                   => double_ge(CappedScore(calc.params, ListedDevices[j], ListedRooms),
                                CappedScore(calc.params, ListedDevices[i], ListedRooms))
        /\ \A i \in 1..Len(SortedMatches) :
               /\ double_gt(SortedMatches[i].score, Double(0, 0))
               /\ double_ge(Double(10, 0), SortedMatches[i].score)
        /\ HasCandidates =>
               \A i \in 1..Len(calc.result.candidates) :
                   /\ double_gt(calc.result.candidates[i].confidence, Double(0, 0))
                   /\ double_ge(Double(10, 0), calc.result.candidates[i].confidence)

\* A hinted resolution in which the hint raised a device's score
C25_Witness ==
    /\ ResolvedFromListings
    /\ "preferred_room_id" \in DOMAIN calc.params
    /\ \E i \in 1..Len(ListedDevices) :
           /\ ListedDevices[i].roomId = calc.params.preferred_room_id
           /\ double_gt(CappedScore(calc.params, ListedDevices[i], ListedRooms),
                        CappedScore(Unhinted(calc.params), ListedDevices[i], ListedRooms))

\* A device whose weights add up to more than 1.0 is held at 1.0.
C25_WitnessCapped ==
    /\ ResolvedFromListings
    /\ \E i \in 1..Len(ListedDevices) :
           /\ double_gt(device_score(calc.params, ListedDevices[i], ListedRooms), Double(10, 0))
           /\ CappedScore(calc.params, ListedDevices[i], ListedRooms) = Double(10, 0)

\* The listing an answered read carried
ListingOf(data, key) == dict_get(data.data.obj, key, <<>>)

BothReadsAnswered ==
    /\ calc.stage = "resolved"
    /\ calc.second /= NoRequest
    /\ calc.rooms_data.raised = NoException
    /\ calc.rooms_data.data.kind = "object"

C28_SameHostAndCredential ==
    (calc.stage \in {"rooms", "resolved"} /\ calc.second /= NoRequest) =>
        /\ calc.second.host = calc.first.host
        /\ calc.second.headers = calc.first.headers

\* C27: the stored credential and the stored issuance time are both set or
\* both unset, and when set they and the stored host were assigned by one
\* and the same authenticate.
C27_CredentialAndTimeTogether ==
    /\ (session.auth_key = NoneKey) <=> (session.session_start = NoneTime)
    /\ session.auth_key /= NoneKey =>
           /\ written.auth_key /= NoStamp
           /\ written.host = written.auth_key
           /\ written.session_start = written.auth_key

\* C29: a step of a tool's api_request, its start or its completion with any
\* outcome, leaves host, credential and issuance time as they were.
C29_ApiRequestKeepsSession ==
    [][\A t \in Tasks :
          (task'[t] /= task[t] /\ (task[t].tool \in ApiTools \/ task'[t].tool \in ApiTools))
              => session' = session]_vars

\* An api_request answered 401 by the controller returns while the local
\* session is still valid.
C29_Witness ==
    /\ last.tool \in ApiTools
    /\ last.sends = 1
    /\ last.net.resp.status_code = 401
    /\ is_valid(session, now)

\* The result of the except ValueError clause: the exception's text alone
TookValidityBranch(result) == DOMAIN result = {"error"}

\* C30: a tool returns through its except ValueError clause only when its
\* api_request sent nothing; a failure after the request was sent, a 2xx
\* answer that cannot be decoded included, is returned through the clause
\* for remote and transport errors.
C30_ValidityBranchOnlyUnsent ==
    (last.tool \in ApiTools /\ TookValidityBranch(last.result)) => last.sends = 0

============================================================================
